---- MODULE Spec2Model ----
(***************************************************************************)
(* SENTINEL host: capability manager (capabilities.rs), guest-facing host  *)
(* calls (host_calls.rs), the HITL bridge (hitl.rs), and the guest imports, *)
(* the log channel and the boot sequence of the engine (engine.rs).         *)
(***************************************************************************)
EXTENDS Integers, Sequences, FiniteSets, TLC

VARIABLES
    now,          \* SystemTime::now(), in seconds
    tokens,       \* CapabilityManager.tokens : id -> CapabilityToken
    nextId,       \* the next value generate_token_id() yields
    revokedOk,    \* history: ids for which revoke_token returned true
    fs,           \* the on-disk topology the host canonicalises against
    written,      \* paths tokio::fs::write has written
    pc,           \* position of the guest's current host call
    cur,          \* the host call suspended between validation and effect
    ret,          \* the result of the host call that just completed
    manifests,    \* HitlBridge.manifests : id -> (ExecutionManifest, ApprovalStatus)
    callback,     \* HitlBridge.approval_callback is Some
    sub,          \* position of each submit_manifest call
    rsv,          \* position of the approver's resolve_manifest call
    nonceSeen,    \* history: per nonce, the submissions that were not refused
    hret,         \* the result of the HITL call that just completed
    used_nonces,  \* CapabilityManager.used_nonces
    nlock,        \* the holder of used_nonces' write lock, 0 when free
    ncall,        \* position of each record_nonce call
    nonceOk,      \* history: per nonce, the record_nonce calls that returned Ok
    um,           \* a call of url_matches_pattern: its arguments and result
    sg,           \* a sign_manifest / verify_signature pair: arguments, results
    log_sender,   \* SentinelState.log_sender is Some
    log_queue,    \* the records buffered in the bounded mpsc channel
    emitted,      \* history: the records emitted, in emission order
    received,     \* history: the records the log consumer has taken
    bt,           \* one run of boot: configuration, guest, position, results
    uc,           \* one whitelist entry, one NetUrl token request and one use
    hlock,        \* the holders of HitlBridge's RwLock and Mutex
    hcall         \* position of each caller of the HitlBridge, lock by lock

capVars == <<now, tokens, nextId, revokedOk, fs, written, pc, cur, ret>>
hitlVars == <<manifests, callback, sub, rsv, nonceSeen, hret>>
nonceVars == <<used_nonces, nlock, ncall, nonceOk>>
urlVars == <<um>>
sigVars == <<sg>>
logVars == <<log_sender, log_queue, emitted, received>>
bootVars == <<bt>>
composeVars == <<uc>>
bridgeVars == <<hlock, hcall>>
extVars == <<sigVars, logVars, bootVars, composeVars, bridgeVars>>
vars == <<capVars, hitlVars, nonceVars, urlVars, extVars>>

\* Each component leaves the state of the others alone.
CapOnly == UNCHANGED <<hitlVars, nonceVars, urlVars, extVars>>
HitlOnly == UNCHANGED <<capVars, nonceVars, urlVars, extVars>>
NonceOnly == UNCHANGED <<capVars, hitlVars>> /\ UNCHANGED <<urlVars, extVars>>

ExtOnly(own) ==
    /\ UNCHANGED <<capVars, hitlVars, nonceVars, urlVars>>
    /\ UNCHANGED own

\* No log channel is attached and nothing was logged.
InitLogOff ==
    /\ log_sender = FALSE
    /\ log_queue = <<>>
    /\ emitted = <<>>
    /\ received = <<>>

(* ------------------------------ bounds --------------------------------- *)
MaxTokens == 1
MaxMinted == 2
NumSubmitters == 1
NumRecorders == 2
TickSecs == 150
MaxClock == 300
WriteLen == 1
MaxUrlLen == 3
LogCapacity == 2
MaxLogs == 4
MaxFuel == 2
MaxGuestWork == 2
NumCallers == 2

(* --------------------------- configuration ----------------------------- *)
DefaultTtl == 300
MaxReadSize == 10485760

P_work == <<"work">>
P_pub == <<"pub">>
P_out == <<"out">>
P_etc == <<"etc">>
P_a == <<"work", "a">>
P_link == <<"work", "link">>
P_f == <<"pub", "f">>
P_r == <<"out", "r">>
P_passwd == <<"etc", "passwd">>
\* a file that does not exist yet, in a directory of both lists
P_n == <<"pub", "n">>

AllowedReadDirs == {P_work, P_pub}
AllowedWriteDirs == {P_out, P_pub}

U_api == <<"a", "/", "x">>
U_evil == <<"e", "/", "x">>
UrlWhitelist == {<<"a", "/", "*">>}

\* NetConfig::allowed_methods as configured
AllowedMethods == {"GET"}
\* the method strings the guest passes
Methods == {"GET", "POST"}
ManifestIds == {"m1", "m2"}
Nonces == {0, 1}
EventTypes == {"a", "b"}

Dirs == {P_work, P_pub, P_out, P_etc}
\* the path arguments the guest passes to the read, list and write calls
ReadPaths == {P_work, P_a, P_link, P_f, P_r}
ListPaths == {P_work, P_a, P_link}
WritePaths == {P_a, P_f, P_r, P_n}
GuestPaths == ReadPaths \cup ListPaths \cup WritePaths
GuestUrls == {U_api, U_evil}

(* ------------------------------ paths ---------------------------------- *)
PathStartsWith(p, d) ==
    /\ Len(d) <= Len(p)
    /\ SubSeq(p, 1, Len(d)) = d

PathParent(p) == SubSeq(p, 1, Len(p) - 1)

PathFileName(p) == p[Len(p)]

PathJoin(d, name) == Append(d, name)

IsDir(f, p) == p \in Dirs \/ p = <<>>

Exists(f, p) == IsDir(f, p) \/ p \in DOMAIN f.size

NoPath == [ok |-> FALSE, path |-> <<>>]

RECURSIVE Resolve(_, _, _)
Resolve(f, base, rest) ==
    IF rest = <<>> THEN [ok |-> TRUE, path |-> base]
    ELSE LET c == Head(rest)
             q == Append(base, c)
         IN  IF c = ".."
             THEN Resolve(f, PathParent(base), Tail(rest))
             ELSE IF q = P_link
                  THEN Resolve(f, <<>>, f.link \o Tail(rest))
                  ELSE IF Exists(f, q) /\ (Tail(rest) = <<>> \/ IsDir(f, q))
                       THEN Resolve(f, q, Tail(rest))
                       ELSE NoPath

Canonicalize(f, p) == Resolve(f, <<>>, p)

(* ----------------------- resources and scopes -------------------------- *)
\* A resource is the &str a use operation hands to validate_token.
ResPath(p) == [kind |-> "path", val |-> p]
ResUrl(u) == [kind |-> "url", val |-> u]
ResUiObserve == [kind |-> "ui", val |-> <<"ui:observe">>]
ResUiDispatch(e) == [kind |-> "ui", val |-> <<"ui:dispatch:", e>>]

RECURSIVE PathChars(_)
PathChars(p) ==
    IF p = <<>> THEN <<>> ELSE <<"/", Head(p)>> \o PathChars(Tail(p))

\* The characters of the resource string.
ResChars(r) == IF r.kind = "path" THEN PathChars(r.val) ELSE r.val

\* Path::new(resource).canonicalize(): a string that is no path of the
\* tree names a relative file that does not exist.
CanonRes(f, r) == IF r.kind = "path" THEN Canonicalize(f, r.val) ELSE NoPath

FsPath(pattern, ro) ==
    [class |-> "FsPath", pattern |-> pattern, read_only |-> ro,
     methods |-> <<>>, event_types |-> <<>>]
NetUrl(pattern, methods) ==
    [class |-> "NetUrl", pattern |-> pattern, read_only |-> FALSE,
     methods |-> methods, event_types |-> <<>>]
UiObserve ==
    [class |-> "UiObserve", pattern |-> <<>>, read_only |-> FALSE,
     methods |-> <<>>, event_types |-> <<>>]
UiDispatch(types) ==
    [class |-> "UiDispatch", pattern |-> <<>>, read_only |-> FALSE,
     methods |-> <<>>, event_types |-> types]

(* ------------------------ capability manager --------------------------- *)
StrStartsWith(s, prefix) ==
    /\ Len(prefix) <= Len(s)
    /\ SubSeq(s, 1, Len(prefix)) = prefix

\* url_matches_pattern that prefix-matches a pattern without wildcard too
url_matches_pattern_prefix(url, pattern) ==
    IF Len(pattern) > 0 /\ pattern[Len(pattern)] = "*"
    THEN StrStartsWith(url, SubSeq(pattern, 1, Len(pattern) - 1))
    ELSE StrStartsWith(url, pattern)

url_matches_pattern(url, pattern) ==
    IF Len(pattern) > 0 /\ pattern[Len(pattern)] = "*"
    THEN StrStartsWith(url, SubSeq(pattern, 1, Len(pattern) - 1))
    ELSE url = pattern

\* dir.canonicalize().unwrap_or_else(|_| dir.clone())
DirCanon(f, dir) ==
    LET c == Canonicalize(f, dir) IN IF c.ok THEN c.path ELSE dir

\* url_whitelist.iter().any(|wl| url_matches_pattern(allowed_url_pattern, wl))
is_whitelisted(url_whitelist, allowed_url_pattern) ==
    \E wl \in url_whitelist : url_matches_pattern(allowed_url_pattern, wl)

validate_scope(f, scope) ==
    CASE scope.class = "FsPath" ->
            IF \E dir \in AllowedReadDirs :
                   PathStartsWith(scope.pattern, DirCanon(f, dir))
            THEN "Ok" ELSE "PathEscapeAttempt"
      [] scope.class = "NetUrl" ->
            IF is_whitelisted(UrlWhitelist, scope.pattern)
            THEN "Ok" ELSE "UrlNotWhitelisted"
      [] OTHER -> "Ok"

\* check_resource_against_scope without the starts_with test of its FsPath arm
check_resource_against_scope_any_path(f, scope, resource) ==
    CASE scope.class = "FsPath" ->
            IF ~CanonRes(f, resource).ok THEN "PathEscapeAttempt" ELSE "Ok"
      [] scope.class = "NetUrl" ->
            IF ~url_matches_pattern(ResChars(resource), scope.pattern)
            THEN "UrlNotWhitelisted" ELSE "Ok"
      [] OTHER -> "Ok"

check_resource_against_scope(f, scope, resource) ==
    CASE scope.class = "FsPath" ->
            LET c == CanonRes(f, resource)
            IN  IF ~c.ok THEN "PathEscapeAttempt"
                ELSE IF ~PathStartsWith(c.path, scope.pattern)
                     THEN "PathEscapeAttempt"
                     ELSE "Ok"
      [] scope.class = "NetUrl" ->
            IF ~url_matches_pattern(ResChars(resource), scope.pattern)
            THEN "UrlNotWhitelisted" ELSE "Ok"
      [] OTHER -> "Ok"

\* CapabilityToken::is_valid
is_valid(t, n) == ~t.revoked /\ n < t.issued_at + t.ttl

NewToken(id, scope, n) ==
    [id |-> id, scope |-> scope, issued_at |-> n, ttl |-> DefaultTtl,
     revoked |-> FALSE]

\* HashMap::insert
MapInsert(m, k, v) ==
    [i \in DOMAIN m \cup {k} |-> IF i = k THEN v ELSE m[i]]

\* a mint that stores the token before it has validated the scope
mint_token_insert_first(f, tk, id, scope, n) ==
    LET r == validate_scope(f, scope)
    IN  [result |-> r, id |-> IF r = "Ok" THEN id ELSE 0,
         tokens |-> MapInsert(tk, id, NewToken(id, scope, n))]

\* mint_token: the result and the token table it leaves
mint_token(f, tk, id, scope, n) ==
    LET r == validate_scope(f, scope)
    IN  IF r # "Ok"
        THEN [result |-> r, id |-> 0, tokens |-> tk]
        ELSE [result |-> "Ok", id |-> id,
              tokens |-> MapInsert(tk, id, NewToken(id, scope, n))]

\* validate_token with the expiry check ahead of the revocation check
validate_token_expiry_first(f, tk, n, token_id, resource) ==
    IF token_id \notin DOMAIN tk THEN "CapabilityDenied"
    ELSE LET token == tk[token_id]
         IN  IF ~is_valid(token, n) /\ n >= token.issued_at + token.ttl
             THEN "TokenExpired"
             ELSE IF token.revoked THEN "TokenRevoked"
             ELSE check_resource_against_scope(f, token.scope, resource)

\* validate_token without its revocation check
validate_token_unrevoked(f, tk, n, token_id, resource) ==
    IF token_id \notin DOMAIN tk THEN "CapabilityDenied"
    ELSE LET token == tk[token_id]
         IN  IF n >= token.issued_at + token.ttl THEN "TokenExpired"
             ELSE check_resource_against_scope(f, token.scope, resource)

validate_token(f, tk, n, token_id, resource) ==
    IF token_id \notin DOMAIN tk THEN "CapabilityDenied"
    ELSE LET token == tk[token_id]
         IN  IF token.revoked THEN "TokenRevoked"
             ELSE IF ~is_valid(token, n) THEN "TokenExpired"
             ELSE check_resource_against_scope(f, token.scope, resource)

\* revoke_token that sets the flag on a copy of the token
revoke_token_on_copy(tk, token_id) ==
    [found |-> token_id \in DOMAIN tk, tokens |-> tk]

\* revoke_token that marks every token of the table
revoke_token_all(tk, token_id) ==
    IF token_id \in DOMAIN tk
    THEN [found |-> TRUE,
          tokens |-> [i \in DOMAIN tk |-> [tk[i] EXCEPT !.revoked = TRUE]]]
    ELSE [found |-> FALSE, tokens |-> tk]

\* revoke_token: the returned bool and the token table it leaves
revoke_token(tk, token_id) ==
    IF token_id \in DOMAIN tk
    THEN [found |-> TRUE,
          tokens |-> [tk EXCEPT ![token_id].revoked = TRUE]]
    ELSE [found |-> FALSE, tokens |-> tk]

\* a purge that looks at the expiry only and keeps revoked tokens
purge_expired_keeps_revoked(tk, n) ==
    LET keep == {i \in DOMAIN tk : n < tk[i].issued_at + tk[i].ttl}
    IN  [purged |-> Cardinality(DOMAIN tk) - Cardinality(keep),
         tokens |-> [i \in keep |-> tk[i]]]

\* purge_expired: the returned count and the token table it leaves
purge_expired(tk, n) ==
    LET keep == {i \in DOMAIN tk : is_valid(tk[i], n)}
    IN  [purged |-> Cardinality(DOMAIN tk) - Cardinality(keep),
         tokens |-> [i \in keep |-> tk[i]]]

(* ----------------------------- host calls ------------------------------ *)
PathErr(e) == [ok |-> FALSE, path |-> <<>>, err |-> e]
PathOk(p) == [ok |-> TRUE, path |-> p, err |-> "Ok"]

\* canonicalize_and_validate_read_path without its allowed_read_dirs test
canonicalize_and_validate_read_path_unchecked(f, path) ==
    LET canonical == Canonicalize(f, path)
    IN  IF ~canonical.ok THEN PathErr("PathEscapeAttempt")
        ELSE PathOk(canonical.path)

canonicalize_and_validate_read_path(f, path) ==
    LET canonical == Canonicalize(f, path)
    IN  IF ~canonical.ok THEN PathErr("PathEscapeAttempt")
        ELSE IF ~\E dir \in AllowedReadDirs :
                    PathStartsWith(canonical.path, DirCanon(f, dir))
             THEN PathErr("PathEscapeAttempt")
             ELSE PathOk(canonical.path)

canonicalize_and_validate_write_path(f, path) ==
    LET parent_canon == Canonicalize(f, PathParent(path))
    IN  IF ~parent_canon.ok THEN PathErr("PathEscapeAttempt")
        ELSE IF ~\E dir \in AllowedWriteDirs :
                    PathStartsWith(parent_canon.path, DirCanon(f, dir))
             THEN PathErr("PathEscapeAttempt")
             ELSE PathOk(PathJoin(parent_canon.path, PathFileName(path)))

\* A host call with its arguments and its result; method is "" for the
\* calls that take none.
CallM(op, token, res, method, result, effect) ==
    [op |-> op, token |-> token, res |-> res, method |-> method,
     result |-> result, effect |-> effect]

Call(op, token, res, result, effect) ==
    CallM(op, token, res, "", result, effect)

NoCall == Call("none", 0, ResUiObserve, "none", FALSE)

\* A request_* call: scope validation failed before mint, or mint_token ran.
Request(op, res, pre, scope) ==
    /\ pc = "idle"
    /\ nextId <= MaxTokens
    /\ LET m == mint_token(fs, tokens, nextId, scope, now)
           method == IF scope.methods = <<>> THEN "" ELSE scope.methods[1]
       IN  IF ~pre.ok
           THEN /\ ret' = CallM(op, 0, res, method, pre.err, FALSE)
                /\ UNCHANGED <<tokens, nextId>>
           ELSE /\ ret' = CallM(op, m.id, res, method,
                                IF m.result = "Ok" THEN "Granted" ELSE m.result,
                                FALSE)
                /\ tokens' = m.tokens
                /\ nextId' = IF m.result = "Ok" THEN nextId + 1 ELSE nextId
    /\ pc' = "done"
    /\ UNCHANGED <<now, revokedOk, fs, written, cur>>

request_fs_read ==
    \E path \in ReadPaths :
        LET c == canonicalize_and_validate_read_path(fs, path)
        IN  Request("request_fs_read", ResPath(path), c, FsPath(c.path, TRUE))
    /\ CapOnly

request_fs_write ==
    \E path \in WritePaths :
        LET c == canonicalize_and_validate_write_path(fs, path)
        IN  Request("request_fs_write", ResPath(path), c, FsPath(c.path, FALSE))
    /\ CapOnly

request_net_outbound ==
    \E url \in GuestUrls, method \in Methods :
        Request("request_net_outbound", ResUrl(url), PathOk(<<>>),
                NetUrl(url, <<method>>))
    /\ CapOnly

request_ui_observe ==
    Request("request_ui_observe", ResUiObserve, PathOk(<<>>), UiObserve)
    /\ CapOnly

request_ui_dispatch ==
    \E event_type \in EventTypes :
        Request("request_ui_dispatch", ResUiDispatch(event_type), PathOk(<<>>),
                UiDispatch(<<event_type>>))
    /\ CapOnly

\* release_capability, and revoke_token called by the host itself
release_capability ==
    \E token_id \in 1..MaxTokens :
        LET r == revoke_token(tokens, token_id)
        IN  /\ r.found
            /\ tokens' = r.tokens
            /\ revokedOk' = revokedOk \cup {token_id}
            /\ UNCHANGED <<now, nextId, fs, written, pc, cur, ret>>
    /\ CapOnly

PurgeExpired ==
    LET r == purge_expired(tokens, now)
    IN  /\ r.purged > 0
        /\ tokens' = r.tokens
        /\ UNCHANGED <<now, nextId, revokedOk, fs, written, pc, cur, ret>>
    /\ CapOnly

\* The first half of fs_read / fs_write / fs_list_dir: validate_token.
FsBegin(op, paths) ==
    \E token_id \in 1..MaxTokens, path \in paths :
        LET v == validate_token(fs, tokens, now, token_id, ResPath(path))
        IN  /\ pc = "idle"
            /\ IF v = "Ok"
               THEN /\ pc' = "validated"
                    /\ cur' = Call(op, token_id, ResPath(path), "Ok", FALSE)
                    /\ UNCHANGED ret
               ELSE /\ pc' = "done"
                    /\ ret' = Call(op, token_id, ResPath(path), v, FALSE)
                    /\ UNCHANGED cur
            /\ UNCHANGED <<now, tokens, nextId, revokedOk, fs, written>>

fs_read_validate == FsBegin("fs_read", ReadPaths) /\ CapOnly

fs_write_validate == FsBegin("fs_write", WritePaths) /\ CapOnly

fs_list_dir_validate == FsBegin("fs_list_dir", ListPaths) /\ CapOnly

\* a completion that looks at the token once more before the effect
Finish_revalidating(result, effect) ==
    LET gone == \/ cur.token \notin DOMAIN tokens
                \/ ~is_valid(tokens[cur.token], now)
    IN  /\ pc' = "done"
        /\ ret' = [cur EXCEPT !.result = IF gone THEN "TokenExpired"
                                         ELSE result,
                              !.effect = effect /\ ~gone]
        /\ cur' = NoCall

Finish(result, effect) ==
    /\ pc' = "done"
    /\ ret' = [cur EXCEPT !.result = result, !.effect = effect]
    /\ cur' = NoCall

\* fs_read that refuses a file of exactly max_read_size bytes
fs_read_effect_at_limit ==
    /\ pc = "validated"
    /\ cur.op = "fs_read"
    /\ LET c == canonicalize_and_validate_read_path(fs, cur.res.val)
       IN  IF ~c.ok THEN Finish(c.err, FALSE)
           ELSE IF c.path \notin DOMAIN fs.size THEN Finish("GuestError", FALSE)
           ELSE IF fs.size[c.path] >= MaxReadSize
                THEN Finish("ResourceExhausted", FALSE)
                ELSE Finish("Ok", TRUE)
    /\ UNCHANGED <<now, tokens, nextId, revokedOk, fs, written>>
    /\ CapOnly

fs_read_effect ==
    /\ pc = "validated"
    /\ cur.op = "fs_read"
    /\ LET c == canonicalize_and_validate_read_path(fs, cur.res.val)
       IN  IF ~c.ok THEN Finish(c.err, FALSE)
           ELSE IF c.path \notin DOMAIN fs.size THEN Finish("GuestError", FALSE)
           ELSE IF fs.size[c.path] > MaxReadSize
                THEN Finish("ResourceExhausted", FALSE)
                ELSE Finish("Ok", TRUE)
    /\ UNCHANGED <<now, tokens, nextId, revokedOk, fs, written>>
    /\ CapOnly

fs_write_effect ==
    /\ pc = "validated"
    /\ cur.op = "fs_write"
    /\ LET path == cur.res.val
           parent_canon == Canonicalize(fs, PathParent(path))
           write_path == PathJoin(parent_canon.path, PathFileName(path))
       IN  IF ~parent_canon.ok
           THEN Finish("GuestError", FALSE) /\ UNCHANGED <<fs, written>>
           ELSE IF ~\E dir \in AllowedWriteDirs :
                       PathStartsWith(parent_canon.path, DirCanon(fs, dir))
                THEN Finish("PathEscapeAttempt", FALSE)
                     /\ UNCHANGED <<fs, written>>
                ELSE /\ Finish("Ok", TRUE)
                     /\ written' = written \cup {write_path}
                     /\ fs' = [fs EXCEPT
                                 !.size = MapInsert(fs.size, write_path, WriteLen)]
    /\ UNCHANGED <<now, tokens, nextId, revokedOk>>
    /\ CapOnly

fs_list_dir_effect ==
    /\ pc = "validated"
    /\ cur.op = "fs_list_dir"
    /\ LET c == canonicalize_and_validate_read_path(fs, cur.res.val)
       IN  IF ~c.ok THEN Finish(c.err, FALSE)
           ELSE IF ~IsDir(fs, c.path) THEN Finish("GuestError", FALSE)
                ELSE Finish("Ok", TRUE)
    /\ UNCHANGED <<now, tokens, nextId, revokedOk, fs, written>>
    /\ CapOnly

\* net_request / ui_get_state / ui_send_event: validate, then a stub answer.
StubCall(op, token_id, res, method) ==
    LET v == validate_token(fs, tokens, now, token_id, res)
    IN  /\ pc = "idle"
        /\ pc' = "done"
        /\ ret' = CallM(op, token_id, res, method, v, v = "Ok")
        /\ UNCHANGED <<now, tokens, nextId, revokedOk, fs, written, cur>>

net_request ==
    \E token_id \in 1..MaxTokens, url \in GuestUrls, method \in Methods :
        StubCall("net_request", token_id, ResUrl(url), method)
    /\ CapOnly

ui_get_state ==
    \E token_id \in 1..MaxTokens :
        StubCall("ui_get_state", token_id, ResUiObserve, "")
    /\ CapOnly

ui_send_event ==
    \E token_id \in 1..MaxTokens, event_type \in EventTypes :
        StubCall("ui_send_event", token_id, ResUiDispatch(event_type), "")
    /\ CapOnly

\* The guest resumes with the result of its host call.
Return ==
    /\ pc = "done"
    /\ pc' = "idle"
    /\ ret' = NoCall
    /\ UNCHANGED <<now, tokens, nextId, revokedOk, fs, written, cur>>
    /\ CapOnly

(* ----------------------------- environment ----------------------------- *)
Tick ==
    /\ now + TickSecs <= MaxClock
    /\ now' = now + TickSecs
    /\ UNCHANGED <<tokens, nextId, revokedOk, fs, written, pc, cur, ret>>
    /\ CapOnly

\* Another process re-points the symlink /work/link.
Relink ==
    /\ fs' = [fs EXCEPT !.link = IF fs.link = P_a THEN P_passwd ELSE P_a]
    /\ UNCHANGED <<now, tokens, nextId, revokedOk, written, pc, cur, ret>>
    /\ CapOnly


(* ----------------------------- HITL bridge ----------------------------- *)
Submitters == 1..NumSubmitters

\* RiskLevel values the manifests of the model carry
RiskLevels == {"Low", "High"}

\* HitlConfig::approval_threshold as configured (the default)
approval_threshold == "High"

ManifestR(id, nonce, risk) ==
    [id |-> id, action_description |-> "write", risk_level |-> risk,
     parameters |-> P_f, capability_token_id |-> 0, created_at |-> 0,
     nonce |-> nonce]

Manifest(id, nonce) == ManifestR(id, nonce, "High")

Manifests ==
    {ManifestR(id, n, r) : id \in ManifestIds, n \in Nonces, r \in RiskLevels}

NoManifest == Manifest("none", 0)

\* an encoding that leaves the nonce out
Encode_without_nonce(m) ==
    <<m.id, m.action_description, m.risk_level, m.parameters,
      m.capability_token_id, m.created_at>>

\* serde_json::to_vec(manifest): the fields in declaration order
Encode(m) ==
    <<m.id, m.action_description, m.risk_level, m.parameters,
      m.capability_token_id, m.created_at, m.nonce>>

HostKey == "host"

NoSig == [manifest_id |-> "none", signature_bytes |-> <<>>,
          signer_public_key |-> "none"]

sign_manifest(m) ==
    [manifest_id |-> m.id,
     signature_bytes |-> <<HostKey, Encode(m)>>,
     signer_public_key |-> HostKey]

verify_signature(m, sig) ==
    sig.signature_bytes = <<sig.signer_public_key, Encode(m)>>

\* a keypair that is not the host's
OtherKey == "other"

\* a ManifestSignature made over m with the secret key of `signer`, carrying
\* the public key `carried`
ManifestSignature(signer, carried, m) ==
    [manifest_id |-> m.id,
     signature_bytes |-> <<signer, Encode(m)>>,
     signer_public_key |-> carried]

SgCall(m, m2, sig, phase, result) ==
    [m |-> m, m2 |-> m2, sig |-> sig, phase |-> phase, result |-> result]

NoSg == SgCall(NoManifest, NoManifest, NoSig, "idle", FALSE)

Pending == [kind |-> "Pending", sig |-> NoSig, reason |-> ""]
Approved(sig) == [kind |-> "Approved", sig |-> sig, reason |-> ""]
Rejected(reason) == [kind |-> "Rejected", sig |-> NoSig, reason |-> reason]
TimedOut == [kind |-> "TimedOut", sig |-> NoSig, reason |-> ""]

\* manifests.get_mut(id).map(|(_, s)| *s = status)
SetStatus(tbl, id, status) ==
    IF id \in DOMAIN tbl THEN [tbl EXCEPT ![id].status = status] ELSE tbl

check_status(tbl, id) ==
    IF id \in DOMAIN tbl THEN tbl[id].status
    ELSE [kind |-> "None", sig |-> NoSig, reason |-> ""]

SubIdle == [phase |-> "idle", m |-> NoManifest, status |-> Pending]
RsvIdle == [phase |-> "idle", id |-> "none", approved |-> FALSE,
            m |-> NoManifest]
HCall(op, id, status) == [op |-> op, id |-> id, status |-> status]
NoHCall == HCall("none", "none", Pending)

Bump(f, n) == [f EXCEPT ![n] = IF f[n] < 2 THEN f[n] + 1 ELSE 2]

set_approval_callback ==
    /\ ~callback
    /\ callback' = TRUE
    /\ UNCHANGED <<manifests, sub, rsv, nonceSeen, hret>>
    /\ HitlOnly

\* submit_manifest up to its wait for the approver
SubmitInsert(p, m) ==
    /\ sub[p].phase = "idle"
    /\ manifests' = MapInsert(manifests, m.id,
                              [manifest |-> m, status |-> Pending])
    /\ sub' = [sub EXCEPT ![p] =
                 [phase |-> IF callback THEN "waiting" ELSE "prompting",
                  m |-> m, status |-> Pending]]
    /\ nonceSeen' = Bump(nonceSeen, m.nonce)
    /\ UNCHANGED <<callback, rsv, hret>>

\* HitlBridge::submit_manifest called by host code
submit_manifest_insert ==
    \E p \in Submitters, m \in Manifests :
        SubmitInsert(p, m)
    /\ HitlOnly

\* the manifest the guest import builds: nonce: [0u8; 32]
GuestManifest(id, risk) == ManifestR(id, 0, risk)

\* hitl::Host::submit_manifest, the guest import
guest_submit_manifest ==
    \E p \in Submitters, id \in ManifestIds, risk \in RiskLevels :
        SubmitInsert(p, GuestManifest(id, risk))
    /\ HitlOnly

\* submit_manifest once `approved` is known: the status is stored under the
\* write lock, which is released before the function returns
SubmitFinish(p, approved) ==
    LET m == sub[p].m
        status == IF approved THEN Approved(sign_manifest(m))
                  ELSE Rejected("User rejected the action")
    IN  /\ manifests' = SetStatus(manifests, m.id, status)
        /\ sub' = [sub EXCEPT ![p].phase = "stored", ![p].status = status]
        /\ UNCHANGED <<callback, rsv, nonceSeen, hret>>

\* Ok(Ok(result)): the approver answered on the one-shot channel
submit_manifest_answered ==
    \E p \in Submitters, result \in BOOLEAN :
        /\ sub[p].phase = "waiting"
        /\ SubmitFinish(p, result)
    /\ HitlOnly

\* Ok(Err(_)): the approver dropped the sender
submit_manifest_dropped ==
    \E p \in Submitters :
        /\ sub[p].phase = "waiting"
        /\ SubmitFinish(p, FALSE)
    /\ HitlOnly

\* Err(_): tokio::time::timeout elapsed
submit_manifest_timeout ==
    \E p \in Submitters :
        /\ sub[p].phase = "waiting"
        /\ manifests' = SetStatus(manifests, sub[p].m.id, TimedOut)
        /\ sub' = [sub EXCEPT ![p].phase = "stored", ![p].status = TimedOut]
        /\ UNCHANGED <<callback, rsv, nonceSeen, hret>>
    /\ HitlOnly

\* prompt_terminal returned: the operator typed a line
submit_manifest_terminal ==
    \E p \in Submitters, yes \in BOOLEAN :
        /\ sub[p].phase = "prompting"
        /\ SubmitFinish(p, yes)
    /\ HitlOnly

\* Ok(status) / return Ok(status): submit_manifest returns what it stored
submit_manifest_return ==
    \E p \in Submitters :
        /\ sub[p].phase = "stored"
        /\ hret' = HCall("submit_manifest", sub[p].m.id, sub[p].status)
        /\ sub' = [sub EXCEPT ![p] = SubIdle]
        /\ UNCHANGED <<manifests, callback, rsv, nonceSeen>>
    /\ HitlOnly

\* resolve_manifest: the read of the manifest
resolve_manifest_read ==
    \E id \in ManifestIds, approved \in BOOLEAN :
        /\ rsv.phase = "idle"
        /\ IF id \in DOMAIN manifests
           THEN /\ rsv' = [phase |-> "found", id |-> id, approved |-> approved,
                           m |-> manifests[id].manifest]
                /\ UNCHANGED hret
           ELSE /\ hret' = HCall("resolve_manifest", id,
                                 [kind |-> "GuestError", sig |-> NoSig,
                                  reason |-> "Manifest not found"])
                /\ UNCHANGED rsv
        /\ UNCHANGED <<manifests, callback, sub, nonceSeen>>
    /\ HitlOnly

\* resolve_manifest: the write of the status
resolve_manifest_write ==
    /\ rsv.phase = "found"
    /\ LET status == IF rsv.approved THEN Approved(sign_manifest(rsv.m))
                     ELSE Rejected("User rejected via UI")
       IN  /\ manifests' = SetStatus(manifests, rsv.id, status)
           /\ hret' = HCall("resolve_manifest", rsv.id, status)
    /\ rsv' = RsvIdle
    /\ UNCHANGED <<callback, sub, nonceSeen>>
    /\ HitlOnly

InitHitl ==
    /\ manifests = [i \in {} |-> Pending]
    /\ callback = FALSE
    /\ sub = [p \in Submitters |-> SubIdle]
    /\ rsv = RsvIdle
    /\ nonceSeen = [n \in Nonces |-> 0]
    /\ hret = NoHCall

NextHitl ==
    \/ set_approval_callback
    \/ submit_manifest_insert
    \/ guest_submit_manifest
    \/ submit_manifest_answered
    \/ submit_manifest_dropped
    \/ submit_manifest_timeout
    \/ submit_manifest_terminal
    \/ submit_manifest_return
    \/ resolve_manifest_read
    \/ resolve_manifest_write

(* --------------------------- record_nonce ------------------------------ *)
Recorders == 1..NumRecorders

NIdle == [phase |-> "idle", nonce |-> 0, present |-> FALSE,
          result |-> "none"]

\* a lock that admits a second writer
WriteLockShared(l) == TRUE

\* used_nonces.write().await is granted
WriteLockFree(l) == l = 0

record_nonce_call ==
    \E p \in Recorders, n \in Nonces :
        /\ ncall[p].phase = "idle"
        /\ ncall' = [ncall EXCEPT ![p] = [NIdle EXCEPT !.phase = "lock",
                                                     !.nonce = n]]
        /\ UNCHANGED <<used_nonces, nlock, nonceOk>>
    /\ NonceOnly

record_nonce_lock ==
    \E p \in Recorders :
        /\ ncall[p].phase = "lock"
        /\ WriteLockFree(nlock)
        /\ nlock' = p
        /\ ncall' = [ncall EXCEPT ![p].phase = "probe"]
        /\ UNCHANGED <<used_nonces, nonceOk>>
    /\ NonceOnly

\* HashSet::insert looks the value up ...
record_nonce_probe ==
    \E p \in Recorders :
        /\ ncall[p].phase = "probe"
        /\ ncall' = [ncall EXCEPT ![p].phase = "store",
                                  ![p].present = ncall[p].nonce \in used_nonces]
        /\ UNCHANGED <<used_nonces, nlock, nonceOk>>
    /\ NonceOnly

\* ... and adds it when it was absent
record_nonce_store ==
    \E p \in Recorders :
        /\ ncall[p].phase = "store"
        /\ used_nonces' = IF ncall[p].present THEN used_nonces
                          ELSE used_nonces \cup {ncall[p].nonce}
        /\ ncall' = [ncall EXCEPT ![p].phase = "return",
                                  ![p].result = IF ncall[p].present
                                                THEN "NonceReuse" ELSE "Ok"]
        /\ UNCHANGED <<nlock, nonceOk>>
    /\ NonceOnly

\* the guard is dropped and the result returned
record_nonce_return ==
    \E p \in Recorders :
        /\ ncall[p].phase = "return"
        /\ nlock' = IF nlock = p THEN 0 ELSE nlock
        /\ nonceOk' = IF ncall[p].result = "Ok"
                      THEN Bump(nonceOk, ncall[p].nonce) ELSE nonceOk
        /\ ncall' = [ncall EXCEPT ![p] = NIdle]
        /\ UNCHANGED used_nonces
    /\ NonceOnly

InitNonce ==
    /\ used_nonces = {}
    /\ nlock = 0
    /\ ncall = [p \in Recorders |-> NIdle]
    /\ nonceOk = [n \in Nonces |-> 0]

NextNonce ==
    \/ record_nonce_call
    \/ record_nonce_lock
    \/ record_nonce_probe
    \/ record_nonce_store
    \/ record_nonce_return

(* ---------------------------- specification ---------------------------- *)
InitFs ==
    [link |-> P_a,
     size |-> [p \in {P_a, P_f, P_passwd} |->
                 IF p = P_a THEN MaxReadSize
                 ELSE IF p = P_f THEN MaxReadSize + 1 ELSE 1]]

InitCap ==
    /\ now = 0
    /\ tokens = [i \in {} |-> NoCall]
    /\ nextId = 1
    /\ revokedOk = {}
    /\ fs = InitFs
    /\ written = {}
    /\ pc = "idle"
    /\ cur = NoCall
    /\ ret = NoCall

(* -------------------------------- boot --------------------------------- *)
\* One run of boot.  fuel_limit is EngineConfig::fuel_limit (-1 for None),
\* work the instructions the guest still has to execute, code the value its
\* run function returns, fuel what Store::get_fuel would yield, runs the
\* number of call_run calls, outcome how call_run ended, result what boot
\* returned and exit the exit status of the process.
Boot(fuel_limit, max_memory, work, need_memory, code) ==
    [fuel_limit |-> fuel_limit, max_memory |-> max_memory, work |-> work,
     need_memory |-> need_memory, code |-> code, phase |-> "start",
     fuel |-> -1, runs |-> 0, outcome |-> "none", result |-> "none",
     exit |-> -1]

NoBoot == [Boot(-1, 0, 0, 0, 0) EXCEPT !.phase = "off"]

(* ------------------------ whitelist and token -------------------------- *)
\* One url_whitelist entry, the pattern of a request_net_outbound call and
\* the url of a net_request call made with the token it was granted.
Compose(wl, pattern, url, phase, accepted) ==
    [wl |-> wl, pattern |-> pattern, url |-> url, phase |-> phase,
     accepted |-> accepted]

NoCompose == Compose(<<>>, <<>>, <<>>, "off", FALSE)

(* ------------------------- callers of the bridge ----------------------- *)
Callers == 1..NumCallers

\* What a call returns: an ApprovalStatus, an ApprovalResult, an error or
\* the ids of a Vec<ManifestInfo>.
BrResult(kind, sig, reason, infos) ==
    [kind |-> kind, sig |-> sig, reason |-> reason, infos |-> infos]

NoResult == BrResult("none", NoSig, "", {})

\* A call of a HitlBridge method: the method, where it stands (phase, and
\* at which of its lock statements), the manifest id it was given, the bool
\* it was given or the answer it received, and what it returns.
BrCall(op, phase, at, id, answer, result) ==
    [op |-> op, phase |-> phase, at |-> at, id |-> id, answer |-> answer,
     result |-> result]

BrIdle == BrCall("none", "idle", "none", "none", "none", NoResult)

\* RwLock and Mutex with nobody holding them
Unlocked == [manifests_w |-> 0, manifests_r |-> {}, approval_callback |-> 0]

InitBridgeOff ==
    /\ hlock = Unlocked
    /\ hcall = [p \in Callers |-> BrIdle]

(* ------------------------- url_matches_pattern ------------------------- *)
UrlChars == {"a", "e", "*"}

\* the strings of at most n characters
RECURSIVE StringsUpTo(_)
StringsUpTo(n) ==
    IF n = 0 THEN {<<>>}
    ELSE LET shorter == StringsUpTo(n - 1)
         IN  shorter \cup {Append(w, c) : w \in shorter, c \in UrlChars}

UrlStrings == StringsUpTo(MaxUrlLen)

Match(url, pattern, done, result) ==
    [url |-> url, pattern |-> pattern, done |-> done, result |-> result]

NoMatch == Match(<<>>, <<>>, FALSE, FALSE)

\* url_matches_pattern(url, pattern) is called and returns
url_matches_pattern_call ==
    /\ ~um.done
    /\ um' = Match(um.url, um.pattern, TRUE,
                   url_matches_pattern(um.url, um.pattern))
    /\ UNCHANGED <<capVars, hitlVars, nonceVars, extVars>>

\* the caller takes the result; the same arguments may be tried again
url_matches_pattern_return ==
    /\ um.done
    /\ um' = Match(um.url, um.pattern, FALSE, FALSE)
    /\ UNCHANGED <<capVars, hitlVars, nonceVars, extVars>>

InitUrl ==
    /\ InitHitl
    /\ InitNonce
    /\ InitCap
    /\ \E url \in UrlStrings, pattern \in UrlStrings :
           um = Match(url, pattern, FALSE, FALSE)
    /\ sg = NoSg
    /\ InitLogOff
    /\ bt = NoBoot
    /\ uc = NoCompose
    /\ InitBridgeOff

NextUrl ==
    \/ url_matches_pattern_call
    \/ url_matches_pattern_return

SpecUrl == InitUrl /\ [][NextUrl]_vars

(* ----------------------- sign and verify ------------------------------- *)
\* ExecutionManifest values that differ from each other in every field.  The
\* parameters are the entries of the HashMap in the order this map iterates
\* them, which is the order serde_json writes them in: two maps with the
\* same entries may iterate in different orders.
ParamMaps == {<<"k1", "k2">>, <<"k2", "k1">>, <<"k1">>}

SigManifests ==
    {[id |-> id, action_description |-> ad, risk_level |-> rl,
      parameters |-> pa, capability_token_id |-> ct, created_at |-> ca,
      nonce |-> no] :
        id \in ManifestIds, ad \in {"write", "send"}, rl \in RiskLevels,
        pa \in ParamMaps, ct \in {0, 1}, ca \in {0, 1}, no \in Nonces}

\* sign_manifest(m), called by submit_manifest and resolve_manifest
sign_manifest_call ==
    /\ sg.phase = "idle"
    /\ sg' = SgCall(sg.m, sg.m2, sign_manifest(sg.m), "signed", FALSE)
    /\ ExtOnly(<<logVars, bootVars, composeVars, bridgeVars>>)

\* a ManifestSignature that somebody without the host's signing key made
foreign_signature ==
    /\ sg.phase = "idle"
    /\ \E carried \in {HostKey, OtherKey} :
           sg' = SgCall(sg.m, sg.m2,
                        ManifestSignature(OtherKey, carried, sg.m),
                        "signed", FALSE)
    /\ ExtOnly(<<logVars, bootVars, composeVars, bridgeVars>>)

\* verify_signature(m2, sig)
verify_signature_call ==
    /\ sg.phase = "signed"
    /\ sg' = SgCall(sg.m, sg.m2, sg.sig, "verified",
                    verify_signature(sg.m2, sg.sig))
    /\ ExtOnly(<<logVars, bootVars, composeVars, bridgeVars>>)

\* the caller takes the result
verify_signature_return ==
    /\ sg.phase = "verified"
    /\ sg' = SgCall(sg.m, sg.m2, NoSig, "idle", FALSE)
    /\ ExtOnly(<<logVars, bootVars, composeVars, bridgeVars>>)

InitSig ==
    /\ InitHitl
    /\ InitNonce
    /\ InitCap
    /\ um = NoMatch
    /\ \E m \in SigManifests, m2 \in SigManifests :
           sg = SgCall(m, m2, NoSig, "idle", FALSE)
    /\ InitLogOff
    /\ bt = NoBoot
    /\ uc = NoCompose
    /\ InitBridgeOff

NextSig ==
    \/ sign_manifest_call
    \/ foreign_signature
    \/ verify_signature_call
    \/ verify_signature_return

SpecSig == InitSig /\ [][NextSig]_vars

(* ------------------- whitelist, then token, then url ------------------- *)
\* request_net_outbound(pattern, ..) under a whitelist of the one entry wl:
\* mint_token grants the NetUrl token when validate_scope accepts the pattern
compose_request_net_outbound ==
    /\ uc.phase = "start"
    /\ uc' = [uc EXCEPT !.phase = IF is_whitelisted({uc.wl}, uc.pattern)
                                  THEN "granted" ELSE "denied"]
    /\ ExtOnly(<<sigVars, logVars, bootVars, bridgeVars>>)

\* net_request(token, url, ..): validate_token checks the url against the
\* token's scope
compose_net_request ==
    /\ uc.phase = "granted"
    /\ uc' = [uc EXCEPT
                !.phase = "used",
                !.accepted =
                    check_resource_against_scope(
                        fs, NetUrl(uc.pattern, <<"GET">>), ResUrl(uc.url)) = "Ok"]
    /\ ExtOnly(<<sigVars, logVars, bootVars, bridgeVars>>)

\* the guest has its answer; it may ask again
compose_return ==
    /\ uc.phase \in {"denied", "used"}
    /\ uc' = [uc EXCEPT !.phase = "start", !.accepted = FALSE]
    /\ ExtOnly(<<sigVars, logVars, bootVars, bridgeVars>>)

InitCompose ==
    /\ InitHitl
    /\ InitNonce
    /\ InitCap
    /\ um = NoMatch
    /\ sg = NoSg
    /\ InitLogOff
    /\ bt = NoBoot
    /\ InitBridgeOff
    /\ \E wl \in UrlStrings, pattern \in UrlStrings, url \in UrlStrings :
           uc = Compose(wl, pattern, url, "start", FALSE)

NextCompose ==
    \/ compose_request_net_outbound
    \/ compose_net_request
    \/ compose_return

SpecCompose == InitCompose /\ [][NextCompose]_vars

(* ----------------------------- log channel ----------------------------- *)
LogLevels == {"Info", "Error"}

\* the match on level in logging::Host::log
level_str(level) ==
    CASE level = "Trace" -> "trace"
      [] level = "Debug" -> "debug"
      [] level = "Info" -> "info"
      [] level = "Warn" -> "warn"
      [] level = "Error" -> "error"

\* the record complete() pushes before it calls the LLM backend
ThoughtRecord == <<"info", "system", "THOUGHT: Waiting for LLM response">>

\* a try_send that puts the record in front of the queued ones
try_send_front(queue, rec) ==
    IF Len(queue) >= LogCapacity
    THEN [ok |-> FALSE, queue |-> queue]
    ELSE [ok |-> TRUE, queue |-> <<rec>> \o queue]

\* tx.try_send(rec) on the bounded channel: Err(Full) without waiting when
\* no slot is free, otherwise the record goes behind the queued ones
try_send(queue, rec) ==
    IF Len(queue) >= LogCapacity
    THEN [ok |-> FALSE, queue |-> queue]
    ELSE [ok |-> TRUE, queue |-> Append(queue, rec)]

\* SentinelState has no field that counts the records try_send refused, and
\* the result of try_send is discarded
drop_counter == 0

\* a record is emitted: `if let Some(tx) = &self.log_sender { let _ =
\* tx.try_send(..) }`
Emit(rec) ==
    /\ Len(emitted) < MaxLogs
    /\ emitted' = Append(emitted, rec)
    /\ log_queue' = IF log_sender
                    THEN try_send(log_queue,
                                  [n |-> Len(emitted) + 1, rec |-> rec]).queue
                    ELSE log_queue
    /\ UNCHANGED <<log_sender, received>>

\* logging::Host::log, the guest import
log ==
    \E level \in LogLevels, message \in {"x", "y"} :
        Emit(<<level_str(level), "guest", message>>)
    /\ ExtOnly(<<sigVars, bootVars, composeVars, bridgeVars>>)

\* reasoning::Host::complete, up to the call of the LLM backend
complete ==
    /\ Emit(ThoughtRecord)
    /\ ExtOnly(<<sigVars, bootVars, composeVars, bridgeVars>>)

\* the log consumer takes the oldest queued record: Receiver::recv
log_recv ==
    /\ log_queue # <<>>
    /\ received' = Append(received, Head(log_queue))
    /\ log_queue' = Tail(log_queue)
    /\ UNCHANGED <<log_sender, emitted>>
    /\ ExtOnly(<<sigVars, bootVars, composeVars, bridgeVars>>)

InitLog ==
    /\ InitHitl
    /\ InitNonce
    /\ InitCap
    /\ um = NoMatch
    /\ sg = NoSg
    /\ bt = NoBoot
    /\ uc = NoCompose
    /\ InitBridgeOff
    /\ log_sender \in BOOLEAN
    /\ log_queue = <<>>
    /\ emitted = <<>>
    /\ received = <<>>

NextLog ==
    \/ log
    \/ complete
    \/ log_recv

SpecLog == InitLog /\ [][NextLog]_vars

(* ------------------------------ boot steps ----------------------------- *)
\* the values the guest's run function returns
ExitCodes == {-1, 0, 1}

\* boot up to call_run: create_store gives the store fuel_limit units of
\* fuel when the limit is Some, and a store of an engine that meters fuel
\* starts with none; then the component is instantiated and run is called
boot_call_run ==
    /\ bt.phase = "start"
    /\ bt' = [bt EXCEPT !.phase = "running",
                        !.fuel = IF bt.fuel_limit = -1 THEN 0
                                 ELSE bt.fuel_limit,
                        !.runs = bt.runs + 1]
    /\ ExtOnly(<<sigVars, logVars, composeVars, bridgeVars>>)

\* the guest executes: every instruction burns fuel
guest_step ==
    /\ bt.phase = "running"
    /\ bt.work > 0
    /\ bt.fuel > 0
    /\ bt' = [bt EXCEPT !.work = bt.work - 1, !.fuel = bt.fuel - 1]
    /\ ExtOnly(<<sigVars, logVars, composeVars, bridgeVars>>)

\* the guest traps, out of fuel or on the memory the limiter refused it;
\* call_run yields Err and `?` makes boot return it
guest_trap ==
    /\ bt.phase = "running"
    /\ \/ /\ bt.work > 0
          /\ bt.fuel = 0
          /\ bt' = [bt EXCEPT !.phase = "returned", !.outcome = "out of fuel",
                              !.result = "Err"]
       \/ /\ bt.need_memory > bt.max_memory
          /\ bt' = [bt EXCEPT !.phase = "returned",
                              !.outcome = "out of memory", !.result = "Err"]
    /\ ExtOnly(<<sigVars, logVars, composeVars, bridgeVars>>)

\* run returns its code: boot logs it and returns Ok(())
guest_return ==
    /\ bt.phase = "running"
    /\ bt.work = 0
    /\ bt.need_memory <= bt.max_memory
    /\ bt' = [bt EXCEPT !.phase = "returned", !.outcome = "returned",
                        !.result = "Ok"]
    /\ ExtOnly(<<sigVars, logVars, composeVars, bridgeVars>>)

\* main: `engine::boot(..).await?; Ok(())`, the exit status of the process
main_exit ==
    /\ bt.phase = "returned"
    /\ bt' = [bt EXCEPT !.phase = "exited",
                        !.exit = IF bt.result = "Ok" THEN 0 ELSE 1]
    /\ ExtOnly(<<sigVars, logVars, composeVars, bridgeVars>>)

InitBoot ==
    /\ InitHitl
    /\ InitNonce
    /\ InitCap
    /\ um = NoMatch
    /\ sg = NoSg
    /\ InitLogOff
    /\ \E fuel_limit \in {-1} \cup 0..MaxFuel, max_memory \in {0, 1},
          work \in 0..MaxGuestWork, need_memory \in {0, 1},
          code \in ExitCodes :
           bt = Boot(fuel_limit, max_memory, work, need_memory, code)
    /\ uc = NoCompose
    /\ InitBridgeOff

NextBoot ==
    \/ boot_call_run
    \/ guest_step
    \/ guest_trap
    \/ guest_return
    \/ main_exit

SpecBoot == InitBoot /\ [][NextBoot]_vars

(* ----------------------- the bridge, lock by lock ---------------------- *)
BridgeOnly ==
    /\ UNCHANGED <<capVars, nonceVars, urlVars>>
    /\ UNCHANGED <<sub, rsv, nonceSeen, hret>>
    /\ UNCHANGED <<sigVars, logVars, bootVars, composeVars>>

\* the pub async methods of HitlBridge, check_status being called through
\* the guest import check_approval
BridgeOps == {"submit_manifest", "resolve_manifest", "check_approval",
              "get_pending_manifests", "set_approval_callback"}

\* the id under which manifests are submitted: the guest submits its one
\* manifest under a constant id
SubmitIds == {"m1"}

\* the first lock statement of a method
FirstAt(op) ==
    CASE op = "submit_manifest" -> "insert"
      [] op = "resolve_manifest" -> "read"
      [] op = "set_approval_callback" -> "callback"
      [] OTHER -> "read"

\* the lock a method asks for at a lock statement: manifests.write(),
\* manifests.read() or approval_callback.lock()
LockOf(op, at) ==
    CASE at = "callback" -> "approval_callback"
      [] at \in {"insert", "store", "write"} -> "manifests_w"
      [] OTHER -> "manifests_r"

\* the lock can be granted: a writer needs the RwLock to itself, a reader
\* needs it free of a writer, the Mutex has one holder
CanLock(l, kind) ==
    CASE kind = "manifests_w" -> l.manifests_w = 0 /\ l.manifests_r = {}
      [] kind = "manifests_r" -> l.manifests_w = 0
      [] kind = "approval_callback" -> l.approval_callback = 0

Lock(l, kind, p) ==
    CASE kind = "manifests_w" -> [l EXCEPT !.manifests_w = p]
      [] kind = "manifests_r" -> [l EXCEPT !.manifests_r = @ \cup {p}]
      [] kind = "approval_callback" -> [l EXCEPT !.approval_callback = p]

\* the guards of p are dropped
Unlock(l, p) ==
    [manifests_w |-> IF l.manifests_w = p THEN 0 ELSE l.manifests_w,
     manifests_r |-> l.manifests_r \ {p},
     approval_callback |-> IF l.approval_callback = p THEN 0
                           ELSE l.approval_callback]

Holds(l, p) ==
    \/ l.manifests_w = p
    \/ p \in l.manifests_r
    \/ l.approval_callback = p

\* a submit_manifest that keeps the guard of approval_callback while it waits
drop_cb_after_wait(l, p) == l

\* drop(cb), before the wait for the approver
drop_cb(l, p) == Unlock(l, p)

\* what the wait for the approver can end with: the one-shot channel yields
\* true or false, its sender is dropped, the timer fires; prompt_terminal
\* returns true or false
CallbackAnswers == {"true", "false", "dropped", "timeout"}
TerminalAnswers == {"true", "false"}

\* an `approved` that is false only for an explicit refusal
approved_unless_refused(answer) == answer # "false"

\* `approved`: Ok(Ok(result)) => result, Ok(Err(_)) => false, and what
\* prompt_terminal returns
approved(answer) == answer = "true"

\* the status submit_manifest stores and returns
SubmitStatus(m, answer) ==
    IF answer = "timeout" THEN TimedOut
    ELSE IF approved(answer) THEN Approved(sign_manifest(m))
         ELSE Rejected("User rejected the action")

\* the status resolve_manifest stores and returns
ResolveStatus(m, answer) ==
    IF answer = "true" THEN Approved(sign_manifest(m))
    ELSE Rejected("User rejected via UI")

StatusResult(status) == BrResult(status.kind, status.sig, status.reason, {})

\* a lookup that yields a default manifest for an id that is not stored
get_manifest_or_default(tbl, id) ==
    [found |-> TRUE,
     manifest |-> IF id \in DOMAIN tbl THEN tbl[id].manifest
                  ELSE Manifest(id, 0)]

\* manifests.read().await.get(manifest_id).map(|(m, _)| m.clone())
get_manifest(tbl, id) ==
    [found |-> id \in DOMAIN tbl,
     manifest |-> IF id \in DOMAIN tbl THEN tbl[id].manifest ELSE NoManifest]

\* ManifestApproval built from a ManifestSignature
ManifestApproval(sig) ==
    [manifest_id |-> sig.manifest_id, signature |-> sig.signature_bytes,
     approver_key |-> sig.signer_public_key]

\* a check_approval that reports a manifest that is still Pending as approved
check_approval_pending_approved(tbl, id) ==
    LET res == check_status(tbl, id)
    IN  CASE res.kind \in {"Approved", "Pending"} ->
                BrResult("Approved", ManifestApproval(res.sig), "", {})
          [] res.kind = "Rejected" ->
                BrResult("Rejected", NoSig, res.reason, {})
          [] res.kind = "TimedOut" -> BrResult("TimedOut", NoSig, "", {})
          [] OTHER -> BrResult("Rejected", NoSig, "Pending or not found", {})

\* the match of check_approval on what check_status returned
check_approval(tbl, id) ==
    LET res == check_status(tbl, id)
    IN  CASE res.kind = "Approved" ->
                BrResult("Approved", ManifestApproval(res.sig), "", {})
          [] res.kind = "Rejected" ->
                BrResult("Rejected", NoSig, res.reason, {})
          [] res.kind = "TimedOut" -> BrResult("TimedOut", NoSig, "", {})
          [] OTHER -> BrResult("Rejected", NoSig, "Pending or not found", {})

\* get_pending_manifests: the ids of the entries that are Pending
get_pending_manifests(tbl) ==
    {id \in DOMAIN tbl : tbl[id].status.kind = "Pending"}

\* caller p is inside method op, holding the lock of statement `at`
Inside(p, op, at) ==
    /\ hcall[p].op = op
    /\ hcall[p].phase = "held"
    /\ hcall[p].at = at

\* a method is called
bridge_call ==
    \E p \in Callers, op \in BridgeOps, id \in ManifestIds,
       approve \in BOOLEAN :
        /\ hcall[p].phase = "idle"
        /\ approve => op = "resolve_manifest"
        /\ op = "submit_manifest" => id \in SubmitIds
        /\ hcall' = [hcall EXCEPT ![p] =
               BrCall(op, "lock", FirstAt(op),
                      IF op \in {"get_pending_manifests",
                                 "set_approval_callback"}
                      THEN "none" ELSE id,
                      IF op # "resolve_manifest" THEN "none"
                      ELSE IF approve THEN "true" ELSE "false",
                      NoResult)]
        /\ UNCHANGED <<manifests, callback, hlock>>
    /\ BridgeOnly

\* .write().await, .read().await or .lock().await is granted
bridge_lock ==
    \E p \in Callers :
        /\ hcall[p].phase = "lock"
        /\ CanLock(hlock, LockOf(hcall[p].op, hcall[p].at))
        /\ hlock' = Lock(hlock, LockOf(hcall[p].op, hcall[p].at), p)
        /\ hcall' = [hcall EXCEPT ![p].phase = "held"]
        /\ UNCHANGED <<manifests, callback>>
    /\ BridgeOnly

\* submit_manifest: insert(manifest_id, (manifest, Pending))
bridge_submit_insert ==
    \E p \in Callers :
        /\ Inside(p, "submit_manifest", "insert")
        /\ manifests' = MapInsert(manifests, hcall[p].id,
                                  [manifest |-> Manifest(hcall[p].id, 0),
                                   status |-> Pending])
        /\ hlock' = Unlock(hlock, p)
        /\ hcall' = [hcall EXCEPT ![p].phase = "lock", ![p].at = "callback"]
        /\ UNCHANGED callback
    /\ BridgeOnly

\* submit_manifest: with the guard of approval_callback, the callback is
\* called for its receiver, or there is none; the guard is dropped
bridge_submit_callback ==
    \E p \in Callers :
        /\ Inside(p, "submit_manifest", "callback")
        /\ hlock' = drop_cb(hlock, p)
        /\ hcall' = [hcall EXCEPT ![p].phase = IF callback THEN "waiting"
                                               ELSE "prompting"]
        /\ UNCHANGED <<manifests, callback>>
    /\ BridgeOnly

\* submit_manifest: the wait for the approver ends
bridge_submit_resumed ==
    \E p \in Callers, answer \in CallbackAnswers \cup TerminalAnswers :
        /\ \/ hcall[p].phase = "waiting" /\ answer \in CallbackAnswers
           \/ hcall[p].phase = "prompting" /\ answer \in TerminalAnswers
        /\ hcall' = [hcall EXCEPT ![p].phase = "lock", ![p].at = "store",
                                  ![p].answer = answer]
        /\ UNCHANGED <<manifests, callback, hlock>>
    /\ BridgeOnly

\* submit_manifest: get_mut(&manifest_id).map(|(_, s)| *s = status.clone())
bridge_submit_store ==
    \E p \in Callers :
        LET status == SubmitStatus(Manifest(hcall[p].id, 0), hcall[p].answer)
        IN  /\ Inside(p, "submit_manifest", "store")
            /\ manifests' = SetStatus(manifests, hcall[p].id, status)
            /\ hlock' = Unlock(hlock, p)
            /\ hcall' = [hcall EXCEPT ![p].phase = "ret",
                                      ![p].result = StatusResult(status)]
            /\ UNCHANGED callback
    /\ BridgeOnly

\* resolve_manifest: the manifest is looked up and cloned
bridge_resolve_read ==
    \E p \in Callers :
        LET g == get_manifest(manifests, hcall[p].id)
        IN  /\ Inside(p, "resolve_manifest", "read")
            /\ hlock' = Unlock(hlock, p)
            /\ hcall' = [hcall EXCEPT ![p] =
                   IF g.found
                   THEN [hcall[p] EXCEPT !.phase = "lock", !.at = "write"]
                   ELSE [hcall[p] EXCEPT
                           !.phase = "ret",
                           !.result = BrResult("GuestError", NoSig,
                                               "Manifest not found", {})]]
            /\ UNCHANGED <<manifests, callback>>
    /\ BridgeOnly

\* resolve_manifest: the status is written
bridge_resolve_write ==
    \E p \in Callers :
        LET status == ResolveStatus(Manifest(hcall[p].id, 0), hcall[p].answer)
        IN  /\ Inside(p, "resolve_manifest", "write")
            /\ manifests' = SetStatus(manifests, hcall[p].id, status)
            /\ hlock' = Unlock(hlock, p)
            /\ hcall' = [hcall EXCEPT ![p].phase = "ret",
                                      ![p].result = StatusResult(status)]
            /\ UNCHANGED callback
    /\ BridgeOnly

\* hitl::Host::check_approval: check_status under the read lock, then the
\* match on its result
bridge_check_approval ==
    \E p \in Callers :
        /\ Inside(p, "check_approval", "read")
        /\ hlock' = Unlock(hlock, p)
        /\ hcall' = [hcall EXCEPT
               ![p].phase = "ret",
               ![p].result = check_approval(manifests, hcall[p].id)]
        /\ UNCHANGED <<manifests, callback>>
    /\ BridgeOnly

bridge_get_pending_manifests ==
    \E p \in Callers :
        /\ Inside(p, "get_pending_manifests", "read")
        /\ hlock' = Unlock(hlock, p)
        /\ hcall' = [hcall EXCEPT
               ![p].phase = "ret",
               ![p].result = BrResult("Infos", NoSig, "",
                                      get_pending_manifests(manifests))]
        /\ UNCHANGED <<manifests, callback>>
    /\ BridgeOnly

\* *self.approval_callback.lock().await = Some(callback)
bridge_set_approval_callback ==
    \E p \in Callers :
        /\ Inside(p, "set_approval_callback", "callback")
        /\ callback' = TRUE
        /\ hlock' = Unlock(hlock, p)
        /\ hcall' = [hcall EXCEPT ![p].phase = "ret",
                                  ![p].result = BrResult("Unit", NoSig, "", {})]
        /\ UNCHANGED manifests
    /\ BridgeOnly

\* the caller has its result
bridge_return ==
    \E p \in Callers :
        /\ hcall[p].phase = "ret"
        /\ hcall' = [hcall EXCEPT ![p] = BrIdle]
        /\ UNCHANGED <<manifests, callback, hlock>>
    /\ BridgeOnly

NextBridge ==
    \/ bridge_call
    \/ bridge_lock
    \/ bridge_submit_insert
    \/ bridge_submit_callback
    \/ bridge_submit_resumed
    \/ bridge_submit_store
    \/ bridge_resolve_read
    \/ bridge_resolve_write
    \/ bridge_check_approval
    \/ bridge_get_pending_manifests
    \/ bridge_set_approval_callback
    \/ bridge_return

(* ------------------------- the whole host ------------------------------ *)
Init ==
    /\ InitHitl
    /\ InitNonce
    /\ InitCap
    /\ um = NoMatch
    /\ sg = NoSg
    /\ InitLogOff
    /\ bt = NoBoot
    /\ uc = NoCompose
    /\ InitBridgeOff

Next ==
    \/ request_fs_read
    \/ request_fs_write
    \/ request_net_outbound
    \/ request_ui_observe
    \/ request_ui_dispatch
    \/ release_capability
    \/ PurgeExpired
    \/ fs_read_validate
    \/ fs_read_effect
    \/ fs_write_validate
    \/ fs_write_effect
    \/ fs_list_dir_validate
    \/ fs_list_dir_effect
    \/ net_request
    \/ ui_get_state
    \/ ui_send_event
    \/ Return
    \/ Tick
    \/ Relink

Spec == Init /\ [][Next]_vars

(* ------------- the capability manager's own interface ------------------ *)
CmScopes ==
    {FsPath(P_a, TRUE), FsPath(P_f, FALSE), FsPath(P_passwd, TRUE),
     NetUrl(U_api, <<"GET">>), NetUrl(U_evil, <<"GET">>),
     UiObserve, UiDispatch(<<"a">>)}

CmResources ==
    {ResPath(P_a), ResPath(P_f), ResPath(P_link), ResUrl(U_api),
     ResUrl(U_evil), ResUiObserve, ResUiDispatch("a"), ResUiDispatch("b")}

CmIds == 1..MaxMinted

CmMint ==
    \E scope \in CmScopes :
        LET m == mint_token(fs, tokens, nextId, scope, now)
        IN  /\ nextId <= MaxMinted
            /\ tokens' = m.tokens
            /\ nextId' = IF m.result = "Ok" THEN nextId + 1 ELSE nextId
            /\ ret' = Call("mint_token", m.id, ResUiObserve, m.result, FALSE)
            /\ UNCHANGED <<now, revokedOk, fs, written, pc, cur>>
    /\ CapOnly

CmValidate ==
    \E token_id \in CmIds, resource \in CmResources :
        /\ ret' = Call("validate_token", token_id, resource,
                       validate_token(fs, tokens, now, token_id, resource),
                       FALSE)
        /\ UNCHANGED <<now, tokens, nextId, revokedOk, fs, written, pc, cur>>
    /\ CapOnly

CmRevoke ==
    \E token_id \in CmIds :
        LET r == revoke_token(tokens, token_id)
        IN  /\ tokens' = r.tokens
            /\ revokedOk' = IF r.found THEN revokedOk \cup {token_id}
                            ELSE revokedOk
            /\ ret' = Call("revoke_token", token_id, ResUiObserve,
                           IF r.found THEN "true" ELSE "false", FALSE)
            /\ UNCHANGED <<now, nextId, fs, written, pc, cur>>
    /\ CapOnly

CmPurge ==
    LET r == purge_expired(tokens, now)
    IN  /\ tokens' = r.tokens
        /\ ret' = Call("purge_expired", r.purged, ResUiObserve, "Ok", FALSE)
        /\ UNCHANGED <<now, nextId, revokedOk, fs, written, pc, cur>>
    /\ CapOnly

NextCM ==
    \/ CmMint
    \/ CmValidate
    \/ CmRevoke
    \/ CmPurge
    \/ Tick

SpecCM == Init /\ [][NextCM]_vars

SpecHitl == Init /\ [][NextHitl]_vars

\* The timer of tokio::time::timeout fires, and the host's own steps run;
\* nothing makes the approver answer.
SpecHitlFair ==
    /\ Init
    /\ [][NextHitl]_vars
    /\ WF_vars(submit_manifest_timeout)
    /\ WF_vars(submit_manifest_return)
    /\ WF_vars(resolve_manifest_write)

SpecNonce == Init /\ [][NextNonce]_vars

SpecBridge == Init /\ [][NextBridge]_vars

(* ------------------------------- claims -------------------------------- *)
UseOps == {"fs_read", "fs_write", "fs_list_dir", "net_request",
           "ui_get_state", "ui_send_event"}
FsOps == {"fs_read", "fs_write", "fs_list_dir"}
TokenErrors == {"CapabilityDenied", "TokenRevoked", "TokenExpired"}

\* The token is in the table, not revoked and not expired.
TokenLive(token_id) ==
    /\ token_id \in DOMAIN tokens
    /\ ~tokens[token_id].revoked
    /\ now < tokens[token_id].issued_at + tokens[token_id].ttl

\* A host call completes in this step.
Completes == pc # "done" /\ pc' = "done"

\* C1: a use operation performs its effect only after validate_token has
\* succeeded inside the same call: a call enters its effect half only with a
\* known, unrevoked, unexpired token; every effect belongs to the call that
\* was validated; a call made with an unknown, revoked or expired token
\* returns a token error and reads, writes and answers nothing.
C1_EffectOnlyAfterValidation ==
    [][/\ (pc = "idle" /\ pc' = "validated") =>
              (cur'.op \in FsOps /\ TokenLive(cur'.token))
       /\ (Completes /\ ret'.op \in UseOps /\ ret'.effect) =>
              \/ /\ pc = "validated"
                 /\ cur.op = ret'.op
                 /\ cur.token = ret'.token
                 /\ cur.res = ret'.res
              \/ /\ pc = "idle"
                 /\ ret'.op \notin FsOps
                 /\ TokenLive(ret'.token)
       /\ (pc = "idle" /\ pc' = "done" /\ ret'.op \in UseOps
              /\ ~TokenLive(ret'.token)) =>
              /\ ret'.result \in TokenErrors
              /\ ~ret'.effect
              /\ written' = written
              /\ fs' = fs
       /\ (written' # written \/ fs'.size # fs.size) =>
              (pc = "validated" /\ cur.op = "fs_write")
      ]_vars

\* C1 witness: a file was written by a call that had validated its token.
C1_Witness ==
    /\ pc = "done"
    /\ ret.op = "fs_write"
    /\ ret.effect
    /\ ret.res.val \in written

\* C2: fs_write with a valid write token writes only when a manifest is
\* stored as Approved(sig) whose parameters name the written path and whose
\* signature verifies under the host key.
C2_WriteNeedsApprovedManifest ==
    (/\ pc = "done" /\ ret.op = "fs_write" /\ ret.effect
     /\ ret.token \in DOMAIN tokens
     /\ ~tokens[ret.token].scope.read_only) =>
        \E id \in DOMAIN manifests :
            /\ manifests[id].status.kind = "Approved"
            /\ manifests[id].manifest.parameters = ret.res.val
            /\ manifests[id].status.sig.signer_public_key = HostKey
            /\ verify_signature(manifests[id].manifest,
                                manifests[id].status.sig)

\* The scope class an operation belongs to.
OpClassOk(op, class) ==
    CASE op \in FsOps -> class = "FsPath"
      [] op = "net_request" -> class = "NetUrl"
      [] op = "ui_get_state" -> class = "UiObserve"
      [] op = "ui_send_event" -> class = "UiDispatch"
      [] OTHER -> FALSE

\* C9: a token authorises only effects of its own scope class: no filesystem
\* or network operation passes validation with a UI token, and no UI
\* operation with an FsPath or NetUrl token.
C9_ScopeClassSeparation ==
    [][/\ (pc = "idle" /\ pc' = "validated") =>
              OpClassOk(cur'.op, tokens[cur'.token].scope.class)
       /\ (pc = "idle" /\ pc' = "done" /\ ret'.op \in UseOps
              /\ ret'.result = "Ok") =>
              OpClassOk(ret'.op, tokens[ret'.token].scope.class)
      ]_vars

\* C10: ui_send_event succeeds only with a UiDispatch token whose event-type
\* list contains the event type sent.
C10_DispatchOnlyListedEvents ==
    [][(pc = "idle" /\ pc' = "done" /\ ret'.op = "ui_send_event"
           /\ ret'.result = "Ok") =>
           /\ tokens[ret'.token].scope.class = "UiDispatch"
           /\ \E i \in DOMAIN tokens[ret'.token].scope.event_types :
                  tokens[ret'.token].scope.event_types[i] = ret'.res.val[2]
      ]_vars

Terminal == {"Approved", "Rejected", "TimedOut"}

\* C3: a terminal status is never changed again: once a manifest is
\* Approved, Rejected or TimedOut, check_status keeps returning that status.
C3_TerminalStatusImmutable ==
    [][\A id \in DOMAIN manifests :
           manifests[id].status.kind \in Terminal =>
               check_status(manifests', id) = check_status(manifests, id)
      ]_vars

\* C4: of the submit_manifest calls that carry one nonce at most one is
\* accepted; every further one is refused with NonceReuse.
C4_NonceReuseRefused ==
    \A n \in Nonces : nonceSeen[n] <= 1

\* The record_nonce calls with nonce n that have returned, or are about to
\* return, Ok.
OkCount(n) ==
    nonceOk[n] + Cardinality({p \in Recorders :
                                 /\ ncall[p].phase = "return"
                                 /\ ncall[p].nonce = n
                                 /\ ncall[p].result = "Ok"})

\* C5: of the interleaved record_nonce calls with one nonce exactly one
\* returns Ok, the one that put the nonce into the set; a call that is
\* rejected leaves the set unchanged.
C5_NonceRecordedOnce ==
    /\ [](\A n \in Nonces : OkCount(n) = IF n \in used_nonces THEN 1 ELSE 0)
    /\ [][\A p \in Recorders :
              (ncall[p].phase = "store" /\ ncall'[p].phase = "return"
                  /\ ncall'[p].result = "NonceReuse") =>
                  used_nonces' = used_nonces
         ]_vars

\* C5 witness: one call has returned Ok, a later call with the same nonce
\* is being rejected while another call with that nonce waits for the lock.
C5_Witness ==
    \E p, q \in Recorders :
        /\ p # q
        /\ nonceOk[ncall[p].nonce] = 1
        /\ ncall[p].phase = "return"
        /\ ncall[p].result = "NonceReuse"
        /\ ncall[q].phase = "lock"
        /\ ncall[q].nonce = ncall[p].nonce

\* C6: once revoke_token(t) has returned true, validate_token(t, r) fails for
\* every resource r in every later state.
C6_RevokedStaysRevoked ==
    \A t \in revokedOk : \A r \in CmResources :
        validate_token(fs, tokens, now, t, r) # "Ok"

\* C6 witness: a token whose revoke_token returned true is still in the
\* table next to a live one, and validate_token has just refused it.
C6_Witness ==
    \E t \in revokedOk, u \in DOMAIN tokens :
        /\ t \in DOMAIN tokens
        /\ TokenLive(u)
        /\ ret.op = "validate_token"
        /\ ret.token = t
        /\ ret.result = "TokenRevoked"

ScopeErrors == {"PathEscapeAttempt", "UrlNotWhitelisted"}

\* C7: validate_token checks lookup, revocation, expiry, scope in this
\* order, and returns the token exactly when all four pass.
C7_ValidationOrder ==
    \A id \in CmIds : \A r \in CmResources :
        LET v == validate_token(fs, tokens, now, id, r)
            known == id \in DOMAIN tokens
            expired == now >= tokens[id].issued_at + tokens[id].ttl
        IN  /\ ~known => v = "CapabilityDenied"
            /\ (known /\ tokens[id].revoked) => v = "TokenRevoked"
            /\ (known /\ ~tokens[id].revoked /\ expired) => v = "TokenExpired"
            /\ v \in ScopeErrors => TokenLive(id)
            /\ v = "Ok" <=>
                   /\ TokenLive(id)
                   /\ check_resource_against_scope(fs, tokens[id].scope, r)
                          = "Ok"

\* C7 witness: validate_token answered TokenRevoked for a token that is both
\* revoked and expired.
C7_Witness ==
    /\ ret.op = "validate_token"
    /\ ret.result = "TokenRevoked"
    /\ ret.token \in DOMAIN tokens
    /\ tokens[ret.token].revoked
    /\ now >= tokens[ret.token].issued_at + tokens[ret.token].ttl

\* The fields of a token that are fixed at mint time.
Minted(t) == <<t.id, t.scope, t.issued_at, t.ttl>>

\* C8: no operation changes the id, scope, issued_at or ttl of a minted
\* token; revoke_token only sets the revoked flag of the token it names,
\* purge_expired only removes tokens, validate_token changes nothing.
C8_TokenFrame ==
    [][/\ \A id \in DOMAIN tokens \cap DOMAIN tokens' :
              /\ Minted(tokens'[id]) = Minted(tokens[id])
              /\ tokens[id].revoked => tokens'[id].revoked
       /\ (ret'.op = "revoke_token" /\ tokens' # tokens) =>
              /\ DOMAIN tokens' = DOMAIN tokens
              /\ \A id \in DOMAIN tokens :
                     tokens'[id] = IF id = ret'.token
                                   THEN [tokens[id] EXCEPT !.revoked = TRUE]
                                   ELSE tokens[id]
       /\ (ret'.op = "purge_expired" /\ tokens' # tokens) =>
              /\ DOMAIN tokens' \subseteq DOMAIN tokens
              /\ \A id \in DOMAIN tokens' : tokens'[id] = tokens[id]
       /\ (ret'.op = "validate_token" /\ ret' # ret) => tokens' = tokens
      ]_vars

\* C8 witness: revoke_token has just marked one of two tokens; the other one
\* is still live.
C8_Witness ==
    \E t, u \in DOMAIN tokens :
        /\ t # u
        /\ ret.op = "revoke_token"
        /\ ret.result = "true"
        /\ ret.token = t
        /\ tokens[t].revoked
        /\ TokenLive(u)

\* The parent directory of the path resolves under some allowed_write_dirs
\* entry.
ParentUnderWriteDirs(f, path) ==
    LET c == Canonicalize(f, PathParent(path))
    IN  /\ c.ok
        /\ \E dir \in AllowedWriteDirs : PathStartsWith(c.path, DirCanon(f, dir))

\* C11: a write scope is checked against allowed_write_dirs: request_fs_write
\* is Granted exactly when the parent directory of the path lies under some
\* allowed_write_dirs entry, whether or not it lies under allowed_read_dirs.
C11_WriteScopeUsesWriteDirs ==
    [][(Completes /\ ret'.op = "request_fs_write") =>
           (ret'.result = "Granted" <=> ParentUnderWriteDirs(fs, ret'.res.val))
      ]_vars

\* C12: fs_write never writes with a token whose FsPath scope is read_only.
C12_ReadOnlyTokenNeverWrites ==
    [][(Completes /\ ret'.op = "fs_write" /\ ret'.effect
           /\ tokens[ret'.token].scope.class = "FsPath") =>
           ~tokens[ret'.token].scope.read_only
      ]_vars

\* C13: a write does not need the target file to exist: fs_write with a live
\* write token minted for a path passes validation and creates the file when
\* the parent directory lies under allowed_write_dirs and the leaf is new.
C13_WriteCreatesNewFile ==
    [][(/\ Completes /\ ret'.op = "fs_write"
        /\ TokenLive(ret'.token)
        /\ ParentUnderWriteDirs(fs, ret'.res.val)
        /\ tokens[ret'.token].scope =
               FsPath(canonicalize_and_validate_write_path(fs, ret'.res.val).path,
                      FALSE)
        /\ ~Exists(fs, ret'.res.val)) =>
           /\ ret'.result = "Ok"
           /\ ret'.res.val \in written'
      ]_vars

ReadOps == {"request_fs_read", "fs_read", "fs_list_dir"}

\* The path, resolved through symlinks and "..", is a descendant of some
\* allowed_read_dirs entry.
UnderReadDirs(f, path) ==
    LET c == Canonicalize(f, path)
    IN  /\ c.ok
        /\ \E dir \in AllowedReadDirs : PathStartsWith(c.path, DirCanon(f, dir))

\* C14: request_fs_read, fs_read and fs_list_dir succeed only for a path that
\* resolves, at the time of the call, under some allowed_read_dirs entry; a
\* path that does not resolve, or resolves outside (a symlink re-pointed
\* since the token was minted), is refused with PathEscape.
C14_ReadsStayInsideReadDirs ==
    [][(Completes /\ ret'.op \in ReadOps) =>
           /\ (ret'.result \in {"Granted", "Ok"}) =>
                  UnderReadDirs(fs, ret'.res.val)
           /\ (/\ ~UnderReadDirs(fs, ret'.res.val)
               /\ \/ ret'.op = "request_fs_read"
                  \/ /\ TokenLive(ret'.token)
                     /\ tokens[ret'.token].scope.class = "FsPath") =>
                  ret'.result = "PathEscapeAttempt"
      ]_vars

\* C14 witness: a token was minted for /work/link while it pointed inside;
\* the link was re-pointed outside and fs_read with the live token was
\* refused with PathEscape.
C14_Witness ==
    /\ pc = "done"
    /\ ret.op = "fs_read"
    /\ ret.res = ResPath(P_link)
    /\ ret.result = "PathEscapeAttempt"
    /\ TokenLive(ret.token)
    /\ tokens[ret.token].scope = FsPath(P_a, TRUE)
    /\ fs.link = P_passwd

EndsWithStar(pattern) == pattern # <<>> /\ pattern[Len(pattern)] = "*"

\* C16: url_matches_pattern(url, pattern) is true exactly when the pattern
\* ends with '*' and the url starts with the pattern minus that '*', or the
\* pattern does not end with '*' and the url equals the pattern.
C16_UrlMatchesPattern ==
    um.done =>
        (um.result <=>
            \/ /\ EndsWithStar(um.pattern)
               /\ \E k \in 0..Len(um.url) :
                      SubSeq(um.url, 1, k) \o <<"*">> = um.pattern
            \/ /\ ~EndsWithStar(um.pattern)
               /\ um.url = um.pattern)

\* C16 witness: a url that only starts with a wildcard-free pattern was
\* answered false.
C16_Witness ==
    /\ um.done
    /\ ~um.result
    /\ um.pattern = <<"a", "e">>
    /\ um.url = <<"a", "e", "a">>

\* The url is covered by some url_whitelist entry.
Whitelisted(url) == \E wl \in UrlWhitelist : url_matches_pattern(url, wl)

\* The elements of a Vec.
Elems(v) == {v[i] : i \in DOMAIN v}

\* C17: request_net_outbound is Granted exactly when the url is covered by
\* the whitelist and the method is in allowed_methods; an uncovered url is
\* refused with UrlNotWhitelisted, and a refused request mints no token.
C17_NetRequestGrantedIffAllowed ==
    [][(Completes /\ ret'.op = "request_net_outbound") =>
           /\ ret'.result = "Granted" <=>
                  (Whitelisted(ret'.res.val) /\ ret'.method \in AllowedMethods)
           /\ ~Whitelisted(ret'.res.val) => ret'.result = "UrlNotWhitelisted"
           /\ ret'.result # "Granted" => tokens' = tokens
      ]_vars

\* C18: net_request with a NetUrl token succeeds only for a url that matches
\* the token's pattern and a method that is among the token's methods.
C18_NetRequestChecksMethod ==
    [][(/\ Completes /\ ret'.op = "net_request" /\ ret'.result = "Ok"
        /\ tokens[ret'.token].scope.class = "NetUrl") =>
           /\ url_matches_pattern(ret'.res.val, tokens[ret'.token].scope.pattern)
           /\ ret'.method \in Elems(tokens[ret'.token].scope.methods)
      ]_vars

\* The manifest's risk reaches the threshold.
ReachesThreshold(risk, threshold) ==
    CASE threshold = "None" -> FALSE
      [] threshold = "Critical" -> risk = "Critical"
      [] threshold = "High" -> risk \in {"High", "Critical"}
      [] threshold = "All" -> TRUE

\* C19: submit_manifest invokes the approver exactly when the manifest's risk
\* reaches approval_threshold; a manifest below the threshold is approved
\* without prompting.
C19_ApproverOnlyAtThreshold ==
    [][\A p \in Submitters :
           (sub[p].phase = "idle" /\ sub'[p].phase # "idle") =>
               (sub'[p].phase \in {"waiting", "prompting"} <=>
                    ReachesThreshold(sub'[p].m.risk_level, approval_threshold))
      ]_vars

\* C20: in both approval modes a submit_manifest that waits for its approver
\* eventually returns, with TimedOut when the approver never answers.
C20_SubmitNeverWaitsForever ==
    \A p \in Submitters :
        (sub[p].phase \in {"waiting", "prompting"}) ~> (sub[p].phase = "idle")

\* C21: in callback mode a resolve_manifest(id, approved) that arrives while
\* submit_manifest for id is waiting decides that submission: the status it
\* stored and returned is the one the submit_manifest returns, and the
\* submit_manifest does not overwrite it with a different outcome.
C21_ResolveDecidesWaitingSubmit ==
    [][\A p \in Submitters :
           (/\ sub[p].phase = "waiting"
            /\ sub'[p].phase = "stored"
            /\ hret.op = "resolve_manifest"
            /\ hret.id = sub[p].m.id
            /\ hret.status.kind \in {"Approved", "Rejected"}
            /\ check_status(manifests, sub[p].m.id) = hret.status) =>
               /\ sub'[p].status.kind = hret.status.kind
               /\ check_status(manifests', sub[p].m.id).kind = hret.status.kind
      ]_vars

ManifestFields == {"id", "action_description", "risk_level", "parameters",
                   "capability_token_id", "created_at", "nonce"}

C23_OnlyHostKeyVerifies ==
    (sg.phase = "verified" /\ sg.result) =>
        sg.sig = ManifestSignature(HostKey, HostKey, sg.m2)

\* C24: when submit_manifest returns, the status it returns is terminal and
\* is the status stored for the manifest's id, so a check_status right after
\* the return yields it, also when resolve_manifest calls for that id
\* interleave with the submission.
C24_ReturnedStatusIsStored ==
    [][\A p \in Submitters :
           (sub[p].phase = "stored" /\ sub'[p].phase = "idle") =>
               /\ hret'.status.kind \in Terminal
               /\ check_status(manifests', hret'.id) = hret'.status
      ]_vars

\* The file a read of `path` reaches: it resolves to a regular file under
\* some allowed_read_dirs entry.
ReadableFile(f, path) ==
    /\ UnderReadDirs(f, path)
    /\ Canonicalize(f, path).path \in DOMAIN f.size

\* C25: an fs_read that passed validation returns the contents of a file of
\* at most max_read_size bytes, and fails with ResourceExhausted, returning
\* nothing, for a file of max_read_size + 1 bytes or more.
C25_ReadSizeBoundary ==
    [][(/\ pc = "validated" /\ cur.op = "fs_read" /\ pc' = "done"
        /\ ReadableFile(fs, cur.res.val)) =>
           LET size == fs.size[Canonicalize(fs, cur.res.val).path]
           IN  /\ size <= MaxReadSize =>
                      (ret'.result = "Ok" /\ ret'.effect)
               /\ size >= MaxReadSize + 1 =>
                      (ret'.result = "ResourceExhausted" /\ ~ret'.effect)
      ]_vars

\* C25 witness: a file of exactly max_read_size bytes was read.
C25_Witness ==
    /\ pc = "done"
    /\ ret.op = "fs_read"
    /\ ret.result = "Ok"
    /\ ReadableFile(fs, ret.res.val)
    /\ fs.size[Canonicalize(fs, ret.res.val).path] = MaxReadSize

\* C26: validation is the only gate of a use operation: once validate_token
\* has succeeded inside fs_read, fs_write or fs_list_dir, the rest of the call
\* does not look at the token again, so a token that expires or is revoked by
\* an interleaved call before the effect does not stop it: the call returns
\* no token error and succeeds whenever its path and size checks pass.  A
\* call that starts after the expiry or revocation fails with a token error.
C26_ValidationIsTheOnlyGate ==
    [][/\ (pc = "validated" /\ pc' = "done") =>
              /\ ret'.result \notin TokenErrors
              /\ (/\ cur.op = "fs_read"
                  /\ ReadableFile(fs, cur.res.val)
                  /\ fs.size[Canonicalize(fs, cur.res.val).path]
                         <= MaxReadSize) =>
                     (ret'.result = "Ok" /\ ret'.effect)
              /\ (cur.op = "fs_write"
                     /\ ParentUnderWriteDirs(fs, cur.res.val)) =>
                     (ret'.result = "Ok" /\ ret'.effect
                         /\ written' # {} /\ written \subseteq written')
              /\ (/\ cur.op = "fs_list_dir"
                  /\ UnderReadDirs(fs, cur.res.val)
                  /\ IsDir(fs, Canonicalize(fs, cur.res.val).path)) =>
                     (ret'.result = "Ok" /\ ret'.effect)
       /\ (pc = "idle" /\ pc' # "idle" /\ pc' = "done"
              /\ ret'.op \in UseOps /\ ~TokenLive(ret'.token)) =>
              (ret'.result \in TokenErrors /\ ~ret'.effect)
       /\ (pc = "idle" /\ pc' = "validated") => TokenLive(cur'.token)
      ]_vars

\* C26 witness: fs_write has validated its token, and the token was revoked
\* or expired before the write, which the call is about to perform.
C26_Witness ==
    /\ pc = "validated"
    /\ cur.op = "fs_write"
    /\ ~TokenLive(cur.token)
    /\ ParentUnderWriteDirs(fs, cur.res.val)

\* C27: purge_expired removes exactly the tokens that are not valid at the
\* time of the call (revoked, or now >= issued_at + ttl), returns how many it
\* removed and leaves every valid token as it was, so that a validate_token
\* that succeeds before the purge succeeds after it.
C27_PurgeRemovesExactlyInvalid ==
    [][(ret'.op = "purge_expired" /\ now' = now) =>
           LET valid == {id \in DOMAIN tokens : TokenLive(id)}
           IN  /\ DOMAIN tokens' = valid
               /\ \A id \in valid : tokens'[id] = tokens[id]
               /\ ret'.token = Cardinality(DOMAIN tokens \ valid)
               /\ \A id \in CmIds : \A r \in CmResources :
                      validate_token(fs, tokens, now, id, r) = "Ok" =>
                          validate_token(fs', tokens', now', id, r) = "Ok"
      ]_vars

\* C27 witness: purge_expired has just removed one token and kept a valid
\* one.
C27_Witness ==
    /\ ret.op = "purge_expired"
    /\ ret.token = 1
    /\ \E id \in DOMAIN tokens : TokenLive(id)

\* C28: the log consumer receives the records of one guest, and the host's
\* own records on the same sink, in the order of their emission: what it has
\* received is a subsequence, in emission order, of what was emitted.
C28_LogsArriveInEmissionOrder ==
    LET delivered == received \o log_queue
    IN  /\ \A i \in 1..Len(delivered) :
               /\ delivered[i].n \in 1..Len(emitted)
               /\ emitted[delivered[i].n] = delivered[i].rec
        /\ \A i, j \in 1..Len(delivered) :
               i < j => delivered[i].n < delivered[j].n

\* C28 witness: a record was dropped between two records that were received,
\* one of the guest and one of the host.
C28_Witness ==
    \E i \in 1..Len(received) - 1 :
        /\ received[i + 1].n > received[i].n + 1
        /\ received[i].rec # ThoughtRecord
        /\ received[i + 1].rec = ThoughtRecord

\* C29: when the log channel is full the log call returns without waiting,
\* the newest record is dropped, the queued records are kept, and the drop
\* counter goes up by one.
C29_OverflowDropsNewestAndCounts ==
    [][(/\ log_sender
        /\ Len(log_queue) = LogCapacity
        /\ Len(emitted') = Len(emitted) + 1) =>
           /\ log_queue' = log_queue
           /\ drop_counter' = drop_counter + 1
      ]_vars

\* C30: boot calls the guest's run once per instance and hands the guest's
\* exit code to its caller: the host reports success exactly when run
\* returned 0, and a failure when run returned another code or the guest was
\* stopped by fuel exhaustion or by the memory limit.
C30_BootReportsGuestOutcome ==
    /\ bt.runs <= 1
    /\ bt.phase \in {"running", "returned", "exited"} => bt.runs = 1
    /\ bt.phase = "exited" =>
           (bt.exit = 0 <=> (bt.outcome = "returned" /\ bt.code = 0))

\* C31: every guest run is bounded.  With a fuel limit the guest executes at
\* most that many instructions and a guest that needs more is ended by fuel
\* exhaustion; when fuel_limit is None the store runs the guest without a
\* limit, so such a run never ends out of fuel and a guest that stays inside
\* its memory returns.
C31_GuestRunIsBounded ==
    /\ (bt.phase = "returned" /\ bt.outcome = "out of fuel") =>
           (bt.fuel_limit # -1 /\ bt.fuel = 0 /\ bt.work > 0)
    /\ (bt.phase = "returned" /\ bt.fuel_limit = -1
           /\ bt.need_memory <= bt.max_memory) =>
           bt.outcome = "returned"

\* C33: a submitted manifest stays in the manifest table with the content it
\* was submitted with: no step removes an entry, so check_status never goes
\* back to None, and no step replaces the manifest stored under an id by a
\* different manifest.
C33_ManifestsAreRetained ==
    [][\A id \in DOMAIN manifests :
           /\ id \in DOMAIN manifests'
           /\ check_status(manifests', id).kind # "None"
           /\ manifests'[id].manifest = manifests[id].manifest
      ]_vars

\* C34: every entry (M, Approved(sig)) of the manifest table carries a
\* signature over M itself: sig.manifest_id = M.id, the signer is the host's
\* public key and verify_signature(M, sig) holds, also when resolve_manifest
\* interleaves with a submit_manifest under the same id.
C34_ApprovedEntrySignsItsManifest ==
    \A id \in DOMAIN manifests :
        manifests[id].status.kind = "Approved" =>
            /\ manifests[id].status.sig.manifest_id = manifests[id].manifest.id
            /\ manifests[id].status.sig.signer_public_key = HostKey
            /\ verify_signature(manifests[id].manifest,
                                manifests[id].status.sig)

\* C36: a mint_token whose scope violates policy returns an error and leaves
\* the token table as it was; a successful mint_token adds exactly one token,
\* not revoked, with the default ttl of 300 seconds, the requested scope and
\* the current time, under an id that was not in the table, and leaves every
\* other token unchanged.  Stated for the table of every reachable state and
\* every scope a caller may ask for.
C36_MintTokenFrame ==
    \A scope \in CmScopes :
        LET m == mint_token(fs, tokens, nextId, scope, now)
        IN  IF validate_scope(fs, scope) # "Ok"
            THEN /\ m.result = validate_scope(fs, scope)
                 /\ m.tokens = tokens
            ELSE /\ m.result = "Ok"
                 /\ m.id \notin DOMAIN tokens
                 /\ DOMAIN m.tokens = DOMAIN tokens \cup {m.id}
                 /\ m.tokens[m.id] = [id |-> m.id, scope |-> scope,
                                      issued_at |-> now, ttl |-> DefaultTtl,
                                      revoked |-> FALSE]
                 /\ \A id \in DOMAIN tokens : m.tokens[id] = tokens[id]

\* C36 witness: mint_token has just added a second token next to one that was
\* revoked before, and the revoked one is still there.
C36_Witness ==
    /\ ret.op = "mint_token"
    /\ ret.result = "Ok"
    /\ ret.token \in DOMAIN tokens
    /\ ~tokens[ret.token].revoked
    /\ tokens[ret.token].ttl = DefaultTtl
    /\ \E other \in DOMAIN tokens :
           other # ret.token /\ tokens[other].revoked

\* C35: the mint-time and the use-time URL check compose: every url that
\* validate_token accepts for a NetUrl token that mint_token issued is
\* covered by the whitelist entry, for every entry, every guest pattern and
\* every url over the alphabet, patterns and entries ending in one or more
\* '*' included.
C35_AcceptedUrlIsWhitelisted ==
    (uc.phase = "used" /\ uc.accepted) => url_matches_pattern(uc.url, uc.wl)

\* A caller that waits for the approver, at the channel or at the terminal.
AwaitsApprover(p) == hcall[p].phase \in {"waiting", "prompting"}

\* C32: no lock of the bridge is held while submit_manifest waits for the
\* approver.  A caller that waits for the approver holds no lock; whoever
\* holds a lock is inside a lock statement, which it leaves without waiting
\* for anything; the RwLock never has a writer next to another holder; and a
\* caller that cannot get its lock is kept out by such a holder, never by a
\* pending approval.  Hence check_approval (check_status),
\* get_pending_manifests, resolve_manifest, set_approval_callback and a
\* further submit_manifest complete while an approval is pending, and no
\* interleaving deadlocks.
C32_NoLockHeldWhileWaiting ==
    /\ \A p \in Callers : AwaitsApprover(p) => ~Holds(hlock, p)
    /\ \A p \in Callers : Holds(hlock, p) <=> hcall[p].phase = "held"
    /\ hlock.manifests_w # 0 => hlock.manifests_r = {}
    /\ \A p \in Callers :
           (/\ hcall[p].phase = "lock"
            /\ ~CanLock(hlock, LockOf(hcall[p].op, hcall[p].at))) =>
               \E q \in Callers \ {p} :
                   Holds(hlock, q) /\ hcall[q].phase = "held"

\* C32 witness: while one submit_manifest waits for its approver, a further
\* submit_manifest holds the write lock of the manifest table.
C32_Witness ==
    \E p, q \in Callers :
        /\ hcall[p].op = "submit_manifest"
        /\ hcall[p].phase = "waiting"
        /\ Inside(q, "submit_manifest", "insert")
        /\ hlock.manifests_w = q

\* C37: in callback mode a submit_manifest whose approver dropped the sender
\* without an answer resolves to Rejected, without a signature, and stores
\* Rejected; a submit_manifest resolves to Approved only when the approver
\* answered true, and an entry of the table becomes Approved only by such a
\* submit_manifest or by a resolve_manifest that was given true.
C37_DroppedSenderRejects ==
    [][/\ \A p \in Callers :
              (Inside(p, "submit_manifest", "store")
                  /\ hcall'[p].phase = "ret") =>
                  /\ hcall[p].answer = "dropped" =>
                         /\ hcall'[p].result.kind = "Rejected"
                         /\ hcall'[p].result.sig = NoSig
                         /\ check_status(manifests', hcall[p].id).kind
                                = "Rejected"
                  /\ hcall'[p].result.kind = "Approved" =>
                         hcall[p].answer = "true"
       /\ \A id \in DOMAIN manifests' :
              (/\ manifests'[id].status.kind = "Approved"
               /\ check_status(manifests, id).kind # "Approved") =>
                  \E p \in Callers :
                      /\ hcall[p].id = id
                      /\ hcall[p].answer = "true"
                      /\ hcall[p].phase = "held"
                      /\ hcall[p].at \in {"store", "write"}
                      /\ hcall'[p].phase = "ret"
      ]_vars

\* C37 witness: a submit_manifest whose sender was dropped has returned
\* Rejected, and Rejected is what the table holds.
C37_Witness ==
    \E p \in Callers :
        /\ hcall[p].op = "submit_manifest"
        /\ hcall[p].phase = "ret"
        /\ hcall[p].answer = "dropped"
        /\ callback
        /\ hcall[p].result = StatusResult(Rejected("User rejected the action"))
        /\ check_status(manifests, hcall[p].id)
               = Rejected("User rejected the action")

\* C38: check_approval(id) returns Approved only for an entry stored as
\* Approved, with the stored signature and key; Rejected for a Rejected, a
\* Pending and an unknown manifest (with the stored reason for a Rejected
\* one); TimedOut for a TimedOut one; and no step of it changes the table.
C38_CheckApprovalReflectsStatus ==
    [][\A p \in Callers :
           (hcall[p].op = "check_approval" /\ hcall'[p] # hcall[p]) =>
               /\ manifests' = manifests
               /\ hcall'[p].phase = "ret" =>
                      LET st == check_status(manifests, hcall[p].id)
                          res == hcall'[p].result
                      IN  /\ res.kind \in {"Approved", "Rejected", "TimedOut"}
                          /\ res.kind = "Approved" <=> st.kind = "Approved"
                          /\ res.kind = "TimedOut" <=> st.kind = "TimedOut"
                          /\ res.kind = "Approved" =>
                                 /\ res.sig.manifest_id = st.sig.manifest_id
                                 /\ res.sig.signature = st.sig.signature_bytes
                                 /\ res.sig.approver_key
                                        = st.sig.signer_public_key
                          /\ st.kind = "Rejected" => res.reason = st.reason
      ]_vars

\* C38 witness: check_approval has answered Rejected for a manifest that is
\* stored as Pending, while its submit_manifest waits.
C38_Witness ==
    \E p, q \in Callers :
        /\ hcall[p].op = "check_approval"
        /\ hcall[p].phase = "ret"
        /\ hcall[p].result.kind = "Rejected"
        /\ check_status(manifests, hcall[p].id) = Pending
        /\ hcall[q].op = "submit_manifest"
        /\ hcall[q].id = hcall[p].id
        /\ AwaitsApprover(q)

\* C39: resolve_manifest with an id that is not in the table, which is an id
\* that was never submitted, returns the error Manifest not found, creates
\* no entry and leaves the table as it was, for approved = true and false.
C39_ResolveUnknownIsError ==
    [][\A p \in Callers :
           (/\ hcall[p].op = "resolve_manifest"
            /\ hcall'[p] # hcall[p]
            /\ hcall[p].phase # "idle"
            /\ hcall[p].id \notin DOMAIN manifests) =>
               /\ manifests' = manifests
               /\ hcall[p].phase \in {"lock", "held", "ret"}
               /\ hcall[p].at = "read"
               /\ hcall[p].phase = "held" =>
                      /\ hcall'[p].phase = "ret"
                      /\ hcall'[p].result.kind = "GuestError"
                      /\ hcall'[p].result.reason = "Manifest not found"
      ]_vars

\* C39 witness: resolve_manifest(id, true) has returned the error for an id
\* that is not in the table, next to an entry under another id.
C39_Witness ==
    \E p \in Callers :
        /\ hcall[p].op = "resolve_manifest"
        /\ hcall[p].phase = "ret"
        /\ hcall[p].answer = "true"
        /\ hcall[p].result.kind = "GuestError"
        /\ hcall[p].id \notin DOMAIN manifests
        /\ manifests # << >>

====
